---- MODULE Spec2Model ----
(***************************************************************************)
(* Scene/material lifecycle of the glTF viewer component (ModelViewer):    *)
(* the model-loading effect (FileReader + GLTFLoader.parse callbacks),     *)
(* the unload branch, the part-selection click handler and the             *)
(* "apply color to selected part" effect, over an explicit heap of         *)
(* materials so that reference identity, cloning and disposal are          *)
(* observable.                                                             *)
(*                                                                         *)
(* The component starts mounted: sceneRef and gltfLoaderRef are set by     *)
(* the layout effect before the first run of the loading effect, so the    *)
(* early return of part_000:455-458 and the "File Read Issue" branch of    *)
(* part_000:543-546 are not taken.  Only SpecUnmount lets it unmount.      *)
(*                                                                         *)
(* Objects no reference leads to any more (the meshes of a graph that is   *)
(* neither the root, nor attached, nor selected; a properly released       *)
(* clone; an untouched loader material of such a graph) are dropped from   *)
(* the heap, as the JavaScript runtime does.  A clone that was never       *)
(* disposed, and any material disposed when it should not have been,       *)
(* stays in the heap, so that leaks and wrong releases remain visible.     *)
(* Object identities are opaque: the objects a recolor creates are told    *)
(* apart from every existing object while the effect runs, and are then    *)
(* named after the mesh they were made for.                                *)
(*                                                                         *)
(* Spec covers the session (loads, unload, selection, recolor, GLB         *)
(* export).  SpecImage covers the still-image export and the window        *)
(* resize, which only touch the renderer and the camera.  SpecFraming      *)
(* covers the framing of a loaded model (scale, recentring, camera,        *)
(* ground plane, spotlight) over a set of bounding boxes, with the light   *)
(* gizmo.  SpecFair is the load pipeline under weak fairness of the        *)
(* reader and decoder callbacks, which the browser always delivers.        *)
(* SpecUnmount adds the cleanup of the layout effect.  Lengths and         *)
(* positions are exact rationals, kept as reduced fractions.               *)
(***************************************************************************)
EXTENDS Integers, Sequences, FiniteSets

VARIABLES
    modelFile,              \* Home state modelFile: None or the id of the chosen File
    phase,                  \* per load request: position of its reader/parse pipeline
    fileOf,                 \* per load request: the payload it carries while in flight
    isLoading,              \* ModelViewer state isLoading
    modelGroup,             \* modelGroupRef.current: None or the id of a gltf.scene
    sceneChildren,          \* model graphs in sceneRef.current.children
    geometryDisposed,       \* per model graph: number of geometry.dispose() passes
    gltfOriginalMaterials,  \* gltfOriginalMaterialsRef.current: mesh uuid -> entry
    activeMaterials,        \* activeMaterialsRef.current: mesh uuid -> entry
    material,               \* mesh.material of every decoded mesh: uuid -> entry
    mats,                   \* heap of THREE.Material objects: id -> record
    disposed,               \* per material: number of dispose() calls
    selectedPart,           \* Home state selectedPart: None or a mesh uuid
    selectedPartColor,      \* Home state selectedPartColor (hex string)
    op,                     \* history: the operation that produced this state
    mountSize,              \* <<clientWidth, clientHeight>> of the mount element
    rendererSize,           \* size of the renderer surface (renderer.setSize)
    pixelRatio,             \* renderer.getPixelRatio()
    cameraAspect,           \* cameraRef.current.aspect, as a reduced fraction
    pre,                    \* history: the last load request, the root and the attached
                            \* graphs at that time, and whether the session is still the same
    box,                    \* bounding box of the geometry the chosen payloads hold
    groupScale,             \* scale of the graph framed last (uniform)
    groupPosition,          \* position of the graph framed last
    cameraPosition,         \* cameraRef.current.position
    groundPlaneY,           \* groundPlaneRef.current.position.y
    spotlightPosition,      \* Home state spotlightPosition (the prop of the viewer)
    lightPosition,          \* spotLightRef.current.position
    dragging,               \* transformControlsRef.current.dragging
    showLightHelper,        \* Home state showLightHelper
    errorToasts,            \* per load request: number of error notifications shown
    mounted                 \* the viewer is mounted (scene, camera and renderer exist)

vars == <<modelFile, phase, fileOf, isLoading, modelGroup, sceneChildren,
          geometryDisposed, gltfOriginalMaterials, activeMaterials, material,
          mats, disposed, selectedPart, selectedPartColor, op, pre,
          mountSize, rendererSize, pixelRatio, cameraAspect,
          box, groupScale, groupPosition, cameraPosition, groundPlaneY,
          spotlightPosition, lightPosition, dragging, showLightHelper, errorToasts,
          mounted>>

\* the renderer and the camera, which the session operations leave alone
viewVars == <<mountSize, rendererSize, pixelRatio, cameraAspect, mounted>>

\* the framing of the model, the light and its gizmo
framingVars == <<box, groupScale, groupPosition, cameraPosition, groundPlaneY,
                 spotlightPosition, lightPosition, dragging, showLightHelper>>

\* the session, which the still-image export and the resize leave alone
sessionVars == <<modelFile, phase, fileOf, isLoading, modelGroup, sceneChildren,
                 geometryDisposed, gltfOriginalMaterials, activeMaterials, material,
                 mats, disposed, selectedPart, selectedPartColor, pre, errorToasts>>

(***************************************************************************)
(* Bounds                                                                  *)
(***************************************************************************)
MaxLoads == 2

(***************************************************************************)
(* Values                                                                  *)
(***************************************************************************)
None == 0

Loads == 1..MaxLoads

Files == {"pair", "multi", "corrupt"}

\* a load that holds no payload (not requested yet, or completed)
NoFile == "none"

PickerColors == {"#FF0000", "#0000FF"}

DefaultPartColor == "#FF0000"

NoColor == [hex |-> "none", exact |-> TRUE]

EmptyMap == [x \in {} |-> x]

Undefined == [arr |-> FALSE, ref |-> None, ms |-> <<>>]

MapSet(m, k, v) == [x \in DOMAIN m \cup {k} |-> IF x = k THEN v ELSE m[x]]

MapGet(m, k) == IF k \in DOMAIN m THEN m[k] ELSE Undefined

(***************************************************************************)
(* What the decoder yields for each payload.  "pair": two meshes sharing   *)
(* one material whose colour is not exactly an 8-bit hex value.  "multi":  *)
(* one mesh with a material array [no colour property, standard material   *)
(* whose colour is not an own Color].  "corrupt": the decode fails.        *)
(***************************************************************************)
FileMaterials(f) ==
    CASE f = "pair"  -> << [kind |-> "colored", color |-> [hex |-> "#0000FF", exact |-> FALSE],
                            props |-> "pairSkin"] >>
      [] f = "multi" -> << [kind |-> "plain", color |-> NoColor, props |-> "shader"],
                           [kind |-> "typed", color |-> NoColor, props |-> "standard"] >>
      [] OTHER       -> << >>

FileMeshes(f) ==
    CASE f = "pair"  -> << [arr |-> FALSE, idx |-> <<1>>], [arr |-> FALSE, idx |-> <<1>>] >>
      [] f = "multi" -> << [arr |-> TRUE, idx |-> <<1, 2>>] >>
      [] OTHER       -> << >>

Decodes(f) == f # "corrupt"

MeshUuid(l, i) == l * 10 + i

MaterialId(l, k) == l * 10 + k

ArrayId(l, i) == l * 10 + 5 + i

MeshesOf(l, f) == { MeshUuid(l, i) : i \in 1..Len(FileMeshes(f)) }

\* child.material as supplied by the loader for mesh i of load l
LoaderEntry(l, f, i) ==
    LET spec == FileMeshes(f)[i]
    IN  IF spec.arr
        THEN [arr |-> TRUE, ref |-> ArrayId(l, i),
              ms |-> [j \in 1..Len(spec.idx) |-> MaterialId(l, spec.idx[j])]]
        ELSE [arr |-> FALSE, ref |-> MaterialId(l, spec.idx[1]),
              ms |-> << MaterialId(l, spec.idx[1]) >>]

LoaderMaterials(l, f) ==
    [m \in { MaterialId(l, k) : k \in 1..Len(FileMaterials(f)) } |->
        LET k == m - l * 10
        IN  [kind |-> FileMaterials(f)[k].kind, color |-> FileMaterials(f)[k].color,
             props |-> FileMaterials(f)[k].props, src |-> None, mesh |-> None,
             applied |-> "none"]]

(***************************************************************************)
(* Colour conversions                                                      *)
(***************************************************************************)
\* new THREE.Color(hexString)
ColorFromHex(h) == [hex |-> h, exact |-> TRUE]

\* `#${color.getHexString()}`
getHexString(c) == c.hex

(***************************************************************************)
(* The session as the specification names it                               *)
(***************************************************************************)
Session == [root |-> modelGroup, attached |-> sceneChildren, geom |-> geometryDisposed,
            orig |-> gltfOriginalMaterials, active |-> activeMaterials]

NoSnapshot == [load |-> None, root |-> None, attached |-> {}, same |-> TRUE]

InFlight(l) == phase[l] \in {"reading", "decoding"}

\* sizes of the mount element (it fills the window)
ViewportSizes == { <<300, 150>>, <<401, 301>>, <<640, 480>>, <<800, 600>>, <<1024, 768>> }

\* window.devicePixelRatio
DevicePixelRatios == {1, 2}

\* the "Rendered Image Scale" options
Scales == {1, 2, 3, 4}

RECURSIVE GCD(_, _)
GCD(a, b) ==
    CHOOSE g \in { IF p[2] = 0 THEN p[1] ELSE GCD(p[2], p[1] % p[2]) : p \in { <<a, b>> } } : TRUE

\* width / height
Aspect(size) == << size[1] \div GCD(size[1], size[2]), size[2] \div GCD(size[1], size[2]) >>

(***************************************************************************)
(* Numbers of the framing step: exact fractions <<numerator, denominator>>  *)
(* in lowest terms with a positive denominator, and vectors of them.  Each *)
(* operation takes the value of its operands once (the p of its set        *)
(* expression), so that the cost of a nested expression stays linear.      *)
(***************************************************************************)
Abs(n) == IF n < 0 THEN 0 - n ELSE n

\* n / d in lowest terms, for d > 0
Frac(n, d) ==
    CHOOSE q \in { << p[1] \div GCD(Abs(p[1]), p[2]), p[2] \div GCD(Abs(p[1]), p[2]) >> :
                     p \in { <<n, d>> } } : TRUE

Zero == Frac(0, 1)

One == Frac(1, 1)

Add(a, b) ==
    CHOOSE q \in { Frac(p[1][1] * p[2][2] + p[2][1] * p[1][2], p[1][2] * p[2][2]) :
                     p \in { <<a, b>> } } : TRUE

Sub(a, b) ==
    CHOOSE q \in { Frac(p[1][1] * p[2][2] - p[2][1] * p[1][2], p[1][2] * p[2][2]) :
                     p \in { <<a, b>> } } : TRUE

Mul(a, b) ==
    CHOOSE q \in { Frac(p[1][1] * p[2][1], p[1][2] * p[2][2]) : p \in { <<a, b>> } } : TRUE

\* a / b for b > 0
Div(a, b) ==
    CHOOSE q \in { Frac(p[1][1] * p[2][2], p[1][2] * p[2][1]) : p \in { <<a, b>> } } : TRUE

Less(a, b) == \E p \in { <<a, b>> } : p[1][1] * p[2][2] < p[2][1] * p[1][2]

\* Math.max
Max(a, b) ==
    CHOOSE q \in { IF Less(p[1], p[2]) THEN p[2] ELSE p[1] : p \in { <<a, b>> } } : TRUE

Vec(x, y, z) == [x |-> x, y |-> y, z |-> z]

ZeroVec == Vec(Zero, Zero, Zero)

\* Vector3.sub
VSub(a, b) ==
    CHOOSE v \in { Vec(Sub(p[1].x, p[2].x), Sub(p[1].y, p[2].y), Sub(p[1].z, p[2].z)) :
                     p \in { <<a, b>> } } : TRUE

\* Box3.getSize
getSize(b) == CHOOSE v \in { VSub(p.max, p.min) : p \in { b } } : TRUE

\* Box3.getCenter
getCenter(b) ==
    CHOOSE v \in { Vec(Mul(Add(p.min.x, p.max.x), Frac(1, 2)),
                       Mul(Add(p.min.y, p.max.y), Frac(1, 2)),
                       Mul(Add(p.min.z, p.max.z), Frac(1, 2))) : p \in { b } } : TRUE

\* Box3.setFromObject for a graph whose geometry spans the box local and
\* that has the given uniform scale and position
setFromObject(local, scale, position) ==
    CHOOSE w \in { [min |-> Vec(Add(Mul(p.local.min.x, p.scale), p.position.x),
                                Add(Mul(p.local.min.y, p.scale), p.position.y),
                                Add(Mul(p.local.min.z, p.scale), p.position.z)),
                    max |-> Vec(Add(Mul(p.local.max.x, p.scale), p.position.x),
                                Add(Mul(p.local.max.y, p.scale), p.position.y),
                                Add(Mul(p.local.max.z, p.scale), p.position.z))] :
                     p \in { [local |-> local, scale |-> scale, position |-> position] } } : TRUE

\* extent of the geometry along one axis: <<lowest, highest>> coordinate
Intervals == { <<0, 0>>, <<9, 11>>, <<0 - 3, 1>> }

\* bounding boxes a decoded model can have
Boxes ==
    { [min |-> Vec(Frac(ix[1], 1), Frac(iy[1], 1), Frac(iz[1], 1)),
       max |-> Vec(Frac(ix[2], 1), Frac(iy[2], 1), Frac(iz[2], 1))] :
        ix \in Intervals, iy \in Intervals, iz \in Intervals }

\* the 2 x 2 x 2 cube centred at (10, 10, 10)
CubeAtTen ==
    [min |-> Vec(Frac(9, 1), Frac(9, 1), Frac(9, 1)),
     max |-> Vec(Frac(11, 1), Frac(11, 1), Frac(11, 1))]

\* positions the gizmo can drag the light to
GizmoPositions == { Vec(Frac(1, 1), Frac(2, 1), Frac(3, 1)), Vec(Frac(0 - 4, 1), Frac(8, 1), Zero) }

\* Home: useState({ x: 5, y: 10, z: 7.5 })
InitialSpotlightPosition == Vec(Frac(5, 1), Frac(10, 1), Frac(15, 2))

NoOp == [name |-> "init", arg |-> None, status |-> "none", prior |-> "none"]

\* nothing loaded, nothing selected
EmptySession ==
    /\ modelFile = None
    /\ phase = [l \in Loads |-> "idle"]
    /\ fileOf = [l \in Loads |-> NoFile]
    /\ isLoading = FALSE
    /\ modelGroup = None
    /\ sceneChildren = {}
    /\ geometryDisposed = [l \in Loads |-> 0]
    /\ gltfOriginalMaterials = EmptyMap
    /\ activeMaterials = EmptyMap
    /\ material = EmptyMap
    /\ mats = EmptyMap
    /\ disposed = EmptyMap
    /\ selectedPart = None
    /\ selectedPartColor = DefaultPartColor
    /\ op = NoOp
    /\ pre = NoSnapshot
    /\ errorToasts = [l \in Loads |-> 0]

\* the scene-initialisation layout effect: the renderer gets the size of the
\* mount element and the pixel ratio of the device, the camera their ratio
InitView(size, ratio) ==
    /\ mountSize = size
    /\ rendererSize = size
    /\ pixelRatio = ratio
    /\ cameraAspect = Aspect(size)
    /\ mounted = TRUE

\* the scene-initialisation layout effect and the first run of the spotlight
\* position effect: no graph is framed, the camera is at (0, 1.5, 5), the
\* ground plane at y = -1, the light where the Home state puts it
InitFraming(b) ==
    /\ box = b
    /\ groupScale = One
    /\ groupPosition = ZeroVec
    /\ cameraPosition = Vec(Zero, Frac(3, 2), Frac(5, 1))
    /\ groundPlaneY = Frac(0 - 1, 1)
    /\ spotlightPosition = InitialSpotlightPosition
    /\ lightPosition = InitialSpotlightPosition
    /\ dragging = FALSE
    /\ showLightHelper = FALSE

Init ==
    /\ EmptySession
    /\ InitView(<<640, 480>>, 1)
    /\ InitFraming(CubeAtTen)


(***************************************************************************)
(* Reachability of heap objects                                            *)
(***************************************************************************)
Range(seq) == { seq[j] : j \in 1..Len(seq) }

ModelOfMesh(u) == u \div 10

Restrict(fn, S) == [x \in S |-> fn[x]]

\* a material on which dispose() was called as often as its owner should:
\* never for a loader-supplied material, once for a clone
Released(heap, counts, m) ==
    IF heap[m].mesh = None THEN counts[m] = 0 ELSE counts[m] = 1

\* graphs a reference still leads to: the root, the children of the scene,
\* and the graph of the mesh held in selectedPart
LiveModels(root, attached, selected) ==
    { l \in Loads : l = root \/ l \in attached \/ (selected # None /\ ModelOfMesh(selected) = l) }

\* materials a reference still leads to
Referenced(meshMaterial, orig, active) ==
    UNION ( { Range(meshMaterial[u].ms) : u \in DOMAIN meshMaterial }
            \cup { Range(orig[u].ms) : u \in DOMAIN orig }
            \cup { Range(active[u].ms) : u \in DOMAIN active } )

\* identity of the objects made by the recolor effect while it runs:
\* component j of the new entry, and the new array
TempId(j) == 0 - j

TempArray == TempId(0) - 100

\* lasting identity of component j (0: the array) of the g-th coexisting
\* clone entry made for mesh u
CloneId(u, g, j) == 1000 * (g + 1) + 10 * u + j

\* the heap after an operation, without the objects nothing refers to
Settle(rawMaterial, rawMats, rawDisposed, root, attached, selected, orig, active) ==
    \E meshMaterial \in { Restrict(rawMaterial,
                                   { u \in DOMAIN rawMaterial :
                                       ModelOfMesh(u) \in LiveModels(root, attached, selected) }) } :
    \E kept \in { (Referenced(meshMaterial, orig, active) \cap DOMAIN rawMats)
                    \cup { m \in DOMAIN rawMats : ~Released(rawMats, rawDisposed, m) } } :
        /\ material' = meshMaterial
        /\ mats' = Restrict(rawMats, kept)
        /\ disposed' = Restrict(rawDisposed, kept)

(***************************************************************************)
(* Teardown helpers shared by the unload branch and reader.onload          *)
(***************************************************************************)
\* variant: every active entry is disposed, original or not
DisposeClonedMaterials_All(m) ==
    disposed[m] + Cardinality({ ui \in UNION { { <<u, i>> : i \in 1..Len(activeMaterials[u].ms) } :
                                                u \in DOMAIN activeMaterials } :
                                  activeMaterials[ui[1]].ms[ui[2]] = m })

\* activeMaterialsRef.current.forEach: dispose every entry that is not the
\* original of its uuid; the result is the new dispose count of material m
DisposeClonedMaterials(m) ==
    disposed[m] + Cardinality({ ui \in UNION { { <<u, i>> : i \in 1..Len(activeMaterials[u].ms) } :
                                                u \in DOMAIN activeMaterials } :
                                  /\ activeMaterials[ui[1]] # MapGet(gltfOriginalMaterials, ui[1])
                                  /\ activeMaterials[ui[1]] # Undefined
                                  /\ activeMaterials[ui[1]].ms[ui[2]] = m })

\* some active entry is not the original entry of its mesh
HasClones ==
    \E u \in DOMAIN activeMaterials : activeMaterials[u] # MapGet(gltfOriginalMaterials, u)

\* modelGroupRef.current && sceneRef.current.children.includes(modelGroupRef.current)
ModelIsAttached == modelGroup # None /\ modelGroup \in sceneChildren

\* variant: the root is left in the scene
RemoveModelGroup_Keeps == sceneChildren

\* sceneRef.current.remove(modelGroupRef.current)
RemoveModelGroup == IF ModelIsAttached THEN sceneChildren \ {modelGroup} ELSE sceneChildren

\* modelGroupRef.current.traverse(obj => obj.geometry?.dispose())
DisposeGeometries ==
    IF ModelIsAttached
    THEN [geometryDisposed EXCEPT ![modelGroup] = @ + 1]
    ELSE geometryDisposed

(***************************************************************************)
(* Home.handlePartSelect: the part that becomes selectedPart, and the      *)
(* colour shown in the picker for a clicked part                           *)
(***************************************************************************)
\* variant: onPartSelect(null) keeps the selection
handlePartSelect_KeepsOnNull(part) == IF part = None THEN selectedPart ELSE part

\* setSelectedPart(part)
handlePartSelect(part) == part

RECURSIVE FirstColor(_, _)
FirstColor(ms, i) ==
    IF i > Len(ms) THEN DefaultPartColor
    ELSE IF mats[ms[i]].kind = "colored" THEN getHexString(mats[ms[i]].color)
    ELSE FirstColor(ms, i + 1)

colorToSet(part) == FirstColor(material[part].ms, 1)

(***************************************************************************)
(* The "apply color to selected part" effect                               *)
(***************************************************************************)
\* variant: the effect only checks that a part is selected
EffectReturnsEarly_OnlyNull(currentPart) == currentPart = None

\* the early returns of the effect
EffectReturnsEarly(currentPart) ==
    \/ currentPart = None
    \/ modelGroup = None
    \/ currentPart \notin DOMAIN gltfOriginalMaterials
    \/ MapGet(gltfOriginalMaterials, currentPart) = Undefined

\* variant: the recolor starts from the currently active material
trueOriginalMaterialBase_Active(currentPart) == MapGet(activeMaterials, currentPart)

\* the material(s) every recolor starts from
trueOriginalMaterialBase(currentPart) == MapGet(gltfOriginalMaterials, currentPart)

\* variant: a new material is constructed instead of cloning the original
cloneAndColorMaterial_Fresh(originalMat, colorToApply) ==
    [kind |-> "colored", color |-> colorToApply, props |-> "default", src |-> None]

\* originalMat.clone() followed by the colour assignment
cloneAndColorMaterial(originalMat, colorToApply) ==
    LET o == mats[originalMat]
    IN  IF o.kind = "colored"
        THEN [kind |-> "colored", color |-> colorToApply, props |-> o.props, src |-> originalMat]
        ELSE IF o.kind = "typed"
        THEN [kind |-> "colored", color |-> colorToApply, props |-> o.props, src |-> originalMat]
        ELSE [kind |-> o.kind, color |-> o.color, props |-> o.props, src |-> originalMat]

\* newColoredMaterial: a fresh material, or a fresh array of fresh materials
newColoredMaterial(base) ==
    IF base.arr
    THEN [arr |-> TRUE, ref |-> TempArray, ms |-> [j \in 1..Len(base.ms) |-> TempId(j)]]
    ELSE [arr |-> FALSE, ref |-> TempId(1), ms |-> << TempId(1) >>]

\* variant: the clone test compares the previous material with the active table
DisposesPrevious_Leaky(previousActiveMaterial, base, new, currentPart) ==
    /\ previousActiveMaterial # Undefined
    /\ previousActiveMaterial # base
    /\ previousActiveMaterial # new
    /\ previousActiveMaterial # MapGet(activeMaterials, currentPart)

\* variant: the previous material is disposed without the original guard
DisposesPrevious_Unguarded(previousActiveMaterial, base, new, currentPart) ==
    /\ previousActiveMaterial # Undefined
    /\ previousActiveMaterial # new

\* whether the previous active material is disposed by the effect
DisposesPrevious(previousActiveMaterial, base, new, currentPart) ==
    /\ previousActiveMaterial # Undefined
    /\ previousActiveMaterial # base
    /\ previousActiveMaterial # new
    /\ previousActiveMaterial # MapGet(gltfOriginalMaterials, currentPart)

\* appearance of an entry: what it looks like and what it was derived from
Struct(entry, heap) ==
    [arr |-> entry.arr,
     parts |-> [j \in 1..Len(entry.ms) |->
                  [kind |-> heap[entry.ms[j]].kind, color |-> heap[entry.ms[j]].color,
                   props |-> heap[entry.ms[j]].props, src |-> heap[entry.ms[j]].src]]]

\* the colour the previous active entry was recolored with ("none": it was
\* not made by the effect)
PriorColor(prev) ==
    IF prev = Undefined \/ Len(prev.ms) = 0 \/ prev.ms[1] \notin DOMAIN mats THEN "none"
    ELSE mats[prev.ms[1]].applied

\* materials that stay on the heap when the effect has disposed (or not)
\* the previous entry: a clone that is released here and that nothing refers
\* to any more goes
StayingMaterials(prev, disposes, currentPart) ==
    IF /\ disposes
       /\ MapGet(material, currentPart) = prev
       /\ \A m \in Range(prev.ms) : mats[m].mesh # None /\ disposed[m] = 0
    THEN DOMAIN mats \ Range(prev.ms)
    ELSE DOMAIN mats

\* smallest generation of clones of mesh u that none of the materials in
\* stay belongs to
FreeGeneration(u, stay, span) ==
    CHOOSE k \in 0..Cardinality(stay) :
        /\ \A j \in span : CloneId(u, k, j) \notin stay
        /\ \A h \in 0..(k - 1) : \E j \in span : CloneId(u, h, j) \in stay

\* the tail of the effect: the clones get their colour, the previous entry is
\* disposed when it is a clone, the new entry goes to the mesh and the table
InstallColoredMaterial(currentPart, hex, opName, base, prev, disposes, stay, first) ==
    \E newIds \in { { first + j : j \in 1..Len(base.ms) } } :
    \E new \in { [arr |-> base.arr,
                  ref |-> IF base.arr THEN first ELSE first + 1,
                  ms |-> [j \in 1..Len(base.ms) |-> first + j]] } :
    \E heap \in { [m \in stay \cup newIds |->
                     IF m \in newIds
                     THEN LET c == cloneAndColorMaterial(base.ms[m - first], ColorFromHex(hex))
                          IN  [kind |-> c.kind, color |-> c.color, props |-> c.props,
                               src |-> c.src, mesh |-> currentPart, applied |-> hex]
                     ELSE mats[m]] } :
    \E counts \in { [m \in stay \cup newIds |->
                       IF m \in newIds THEN 0
                       ELSE IF disposes
                       THEN disposed[m] + Cardinality({ j \in 1..Len(prev.ms) : prev.ms[j] = m })
                       ELSE disposed[m]] } :
    \E table \in { MapSet(activeMaterials, currentPart, new) } :
        /\ activeMaterials' = table
        /\ Settle(MapSet(material, currentPart, new), heap, counts, modelGroup,
                  sceneChildren, currentPart, gltfOriginalMaterials, table)
        /\ pre' = NoSnapshot
        /\ op' = [name |-> opName, arg |-> currentPart, status |-> "applied",
                  prior |-> PriorColor(prev)]

\* one run of the effect for (selectedPart, selectedPartColor) = (currentPart, hex)
ApplyColorEffect(currentPart, hex, opName) ==
    IF EffectReturnsEarly(currentPart)
    THEN /\ op' = [name |-> opName, arg |-> currentPart, status |-> "skipped",
                  prior |-> "none"]
         /\ activeMaterials' = activeMaterials
         /\ Settle(material, mats, disposed, modelGroup, sceneChildren, currentPart,
                   gltfOriginalMaterials, activeMaterials)
         /\ UNCHANGED pre
    ELSE IF trueOriginalMaterialBase(currentPart) = Undefined
    THEN \* undefined.clone(): the effect throws before it changed anything
         /\ op' = [name |-> opName, arg |-> currentPart, status |-> "threw",
                  prior |-> "none"]
         /\ UNCHANGED <<mats, disposed, material, activeMaterials, pre>>
    ELSE \E base \in { trueOriginalMaterialBase(currentPart) } :
         \E prev \in { MapGet(activeMaterials, currentPart) } :
         \E disposes \in { DisposesPrevious(prev, base, newColoredMaterial(base), currentPart) } :
         \E stay \in { StayingMaterials(prev, disposes, currentPart) } :
         \E first \in { CloneId(currentPart,
                                FreeGeneration(currentPart, stay, 1..Len(base.ms)), 0) } :
             InstallColoredMaterial(currentPart, hex, opName, base, prev, disposes, stay, first)

(***************************************************************************)
(* User operations                                                         *)
(***************************************************************************)
\* ControlPanel.handleFileChange -> setModelFile(file) -> loading effect,
\* file branch: setIsLoading(true); reader.readAsArrayBuffer(modelFile)
SetModelFile(l, f) ==
    /\ phase[l] = "idle"
    /\ \A k \in Loads : k < l => phase[k] # "idle"
    /\ modelFile' = l
    /\ phase' = [phase EXCEPT ![l] = "reading"]
    /\ fileOf' = [fileOf EXCEPT ![l] = f]
    /\ isLoading' = TRUE
    /\ pre' = [load |-> l, root |-> modelGroup, attached |-> sceneChildren, same |-> TRUE]
    /\ op' = [name |-> "setModelFile", arg |-> l, status |-> "none", prior |-> "none"]
    /\ UNCHANGED <<modelGroup, sceneChildren, geometryDisposed, gltfOriginalMaterials,
                   activeMaterials, material, mats, disposed, selectedPart,
                   selectedPartColor, errorToasts>>
    /\ UNCHANGED viewVars
    /\ UNCHANGED framingVars

\* ControlPanel.handleRemoveModel -> setModelFile(null) -> loading effect,
\* unload branch
RemoveModel ==
    /\ modelFile # None
    /\ modelFile' = None
    /\ sceneChildren' = RemoveModelGroup
    /\ geometryDisposed' = DisposeGeometries
    /\ modelGroup' = None
    /\ gltfOriginalMaterials' = EmptyMap
    /\ activeMaterials' = EmptyMap
    /\ selectedPart' = handlePartSelect(None)
    /\ isLoading' = FALSE
    /\ Settle(material, mats, [m \in DOMAIN disposed |-> DisposeClonedMaterials(m)],
              None, RemoveModelGroup, handlePartSelect(None), EmptyMap, EmptyMap)
    /\ pre' = NoSnapshot
    /\ op' = [name |-> "removeModel", arg |-> modelGroup,
              status |-> IF HasClones THEN "releasedClones" ELSE "none", prior |-> "none"]
    /\ UNCHANGED <<phase, fileOf, selectedPartColor, errorToasts>>
    /\ UNCHANGED viewVars
    /\ UNCHANGED framingVars

\* raycaster.intersectObject(modelGroupRef.current, true): the meshes a
\* click can hit
MeshesOfRoot == { u \in DOMAIN material : ModelOfMesh(u) = modelGroup }

\* ModelViewer.handleCanvasClick -> Home.handlePartSelect -> recolor effect
HandleCanvasClick(target) ==
    /\ modelGroup # None
    /\ target \in MeshesOfRoot \cup {None}
    /\ LET hex == IF target # None THEN colorToSet(target) ELSE selectedPartColor
       IN  /\ target # selectedPart \/ hex # selectedPartColor
           /\ selectedPart' = handlePartSelect(target)
           /\ selectedPartColor' = hex
           /\ ApplyColorEffect(target, hex, "selectPart")
    /\ UNCHANGED <<modelFile, phase, fileOf, isLoading, modelGroup, sceneChildren,
                   geometryDisposed, gltfOriginalMaterials, errorToasts>>
    /\ UNCHANGED viewVars
    /\ UNCHANGED framingVars

\* ControlPanel part-colour input -> setSelectedPartColor -> recolor effect
ChangePartColor(hex) ==
    /\ selectedPart # None
    /\ hex # selectedPartColor
    /\ selectedPartColor' = hex
    /\ ApplyColorEffect(selectedPart, hex, "setPartColor")
    /\ UNCHANGED <<modelFile, phase, fileOf, isLoading, modelGroup, sceneChildren,
                   geometryDisposed, gltfOriginalMaterials, selectedPart, errorToasts>>
    /\ UNCHANGED viewVars
    /\ UNCHANGED framingVars

\* variant: the export re-applies the original materials
ReapplyActiveMaterials_Originals ==
    [u \in DOMAIN material |->
        IF u \in MeshesOfRoot /\ u \in DOMAIN gltfOriginalMaterials
        THEN gltfOriginalMaterials[u] ELSE material[u]]

\* exportToGLB, "ensure all current materials are correctly applied": the
\* traverse of the root that sets child.material from activeMaterialsRef
ReapplyActiveMaterials ==
    [u \in DOMAIN material |->
        IF u \in MeshesOfRoot /\ u \in DOMAIN activeMaterials
        THEN activeMaterials[u] ELSE material[u]]

\* variant: the export only checks that a file is chosen
NoModelToExport_NoFile == modelFile = None

\* !modelGroupRef.current
NoModelToExport == modelGroup = None

\* ControlPanel "Export Model (GLB)" button (enabled while a file is chosen)
\* -> Home.handleExportGLB -> exportToGLB: without a root, the "Export Error"
\* toast and nothing else; with a root, the root is handed to exporter.parse
\* (status "handed"), whose callbacks only save the file or show a toast
ExportToGLB ==
    /\ modelFile # None
    /\ IF NoModelToExport
       THEN /\ op' = [name |-> "exportModel", arg |-> None, status |-> "exportError",
                     prior |-> "none"]
            /\ UNCHANGED <<material, mats, disposed>>
       ELSE /\ op' = [name |-> "exportModel", arg |-> modelGroup, status |-> "handed",
                     prior |-> "none"]
            /\ Settle(ReapplyActiveMaterials, mats, disposed, modelGroup, sceneChildren,
                      selectedPart, gltfOriginalMaterials, activeMaterials)
    /\ UNCHANGED <<modelFile, phase, fileOf, isLoading, modelGroup, sceneChildren,
                   geometryDisposed, gltfOriginalMaterials, activeMaterials, selectedPart,
                   selectedPartColor, pre, errorToasts>>
    /\ UNCHANGED viewVars
    /\ UNCHANGED framingVars

(***************************************************************************)
(* adjustCameraAndLightsToModel: the graph just decoded (scale 1, position *)
(* at the origin) is scaled and centred, the camera, the ground plane and  *)
(* the light are placed around it.                                         *)
(***************************************************************************)
\* Math.max(size.x, size.y, size.z) || 1
maxDim(b) ==
    CHOOSE m \in { IF largest = Zero THEN One ELSE largest :
                     largest \in { Max(size.x, Max(size.y, size.z)) : size \in { getSize(b) } } } :
        TRUE

\* 5 / maxDim, and 1 when maxDim === 0 (every fraction is finite)
fitScale(b) ==
    CHOOSE s \in { IF m = Zero THEN One ELSE Div(Frac(5, 1), m) : m \in { maxDim(b) } } : TRUE

\* the box of the graph once it is scaled
scaledBox(b) == setFromObject(b, fitScale(b), ZeroVec)

\* variant: the graph is moved by the centre of the box before scaling
CenterModelAtOrigin_Unscaled(b) == VSub(ZeroVec, getCenter(b))

\* modelGroupRef.current.position.sub(scaledBox.getCenter(...))
CenterModelAtOrigin(b) == VSub(ZeroVec, getCenter(scaledBox(b)))

\* newLightPos: lightOffsetFactor = 1.5, so the three factors are 0.3, 0.75, 1.5
newLightPos(b) ==
    CHOOSE v \in { Vec(Add(p.scaledBox.max.x, Mul(Mul(p.size.x, p.fitScale), Frac(3, 10))),
                       Add(p.scaledBox.max.y, Mul(Mul(p.size.y, p.fitScale), Frac(3, 4))),
                       Add(p.center.z, Mul(Mul(p.size.z, p.fitScale), Frac(3, 2)))) :
                     p \in { [size |-> getSize(b), center |-> getCenter(b),
                              scaledBox |-> scaledBox(b), fitScale |-> fitScale(b)] } } : TRUE

\* the "update spotlight position from props" effect: the light is moved to
\* the position of the Home state unless the gizmo is being dragged
SpotlightPositionEffect(position) == IF dragging THEN lightPosition ELSE position

adjustCameraAndLightsToModel ==
    \E scaled \in { scaledBox(box) } :
    \E light \in { newLightPos(box) } :
        /\ groupScale' = fitScale(box)
        /\ groupPosition' = CenterModelAtOrigin(box)
        /\ cameraPosition' = Vec(Zero, Mul(getSize(scaled).y, Frac(3, 4)),
                                 Mul(Mul(maxDim(box), fitScale(box)), Frac(3, 2)))
        /\ groundPlaneY' = scaled.min.y
        /\ spotlightPosition' = light
        /\ lightPosition' = SpotlightPositionEffect(light)
        /\ UNCHANGED <<box, dragging, showLightHelper>>

(***************************************************************************)
(* The light gizmo (TransformControls attached to the spot light while the *)
(* light helper is shown)                                                  *)
(***************************************************************************)
\* ControlPanel light-helper switch -> setShowLightHelper -> the effect that
\* attaches or detaches the gizmo
ToggleLightHelper ==
    /\ ~dragging
    /\ showLightHelper' = ~showLightHelper
    /\ op' = [name |-> "toggleLightHelper", arg |-> None, status |-> "none", prior |-> "none"]
    /\ UNCHANGED <<box, groupScale, groupPosition, cameraPosition, groundPlaneY,
                   spotlightPosition, lightPosition, dragging>>
    /\ UNCHANGED sessionVars
    /\ UNCHANGED viewVars

\* pointer down on the gizmo
DragStart ==
    /\ showLightHelper
    /\ ~dragging
    /\ dragging' = TRUE
    /\ op' = [name |-> "dragStart", arg |-> None, status |-> "none", prior |-> "none"]
    /\ UNCHANGED <<box, groupScale, groupPosition, cameraPosition, groundPlaneY,
                   spotlightPosition, lightPosition, showLightHelper>>
    /\ UNCHANGED sessionVars
    /\ UNCHANGED viewVars

\* pointer move during a drag: the gizmo moves the light, its 'objectChange'
\* listener copies the position to the Home state
DragMove(position) ==
    /\ dragging
    /\ position # lightPosition
    /\ lightPosition' = position
    /\ spotlightPosition' = position
    /\ op' = [name |-> "dragMove", arg |-> None, status |-> "none", prior |-> "none"]
    /\ UNCHANGED <<box, groupScale, groupPosition, cameraPosition, groundPlaneY,
                   dragging, showLightHelper>>
    /\ UNCHANGED sessionVars
    /\ UNCHANGED viewVars

\* pointer up
DragEnd ==
    /\ dragging
    /\ dragging' = FALSE
    /\ op' = [name |-> "dragEnd", arg |-> None, status |-> "none", prior |-> "none"]
    /\ UNCHANGED <<box, groupScale, groupPosition, cameraPosition, groundPlaneY,
                   spotlightPosition, lightPosition, showLightHelper>>
    /\ UNCHANGED sessionVars
    /\ UNCHANGED viewVars

(***************************************************************************)
(* Completions of the load pipeline                                        *)
(***************************************************************************)
\* the snapshot survives the callbacks of its own load and records whether
\* they changed the session
KeepOwnSnapshot(l, after) ==
    IF pre.load = l THEN [pre EXCEPT !.same = @ /\ after = Session] ELSE NoSnapshot

\* reader.onload: tears the previous model down, then hands the bytes to
\* loader.parse, whose callbacks run later
ReaderOnLoad(l) ==
    /\ phase[l] = "reading"
    /\ gltfOriginalMaterials' = EmptyMap
    /\ activeMaterials' = EmptyMap
    /\ sceneChildren' = RemoveModelGroup
    /\ geometryDisposed' = DisposeGeometries
    /\ modelGroup' = None
    /\ Settle(material, mats, [m \in DOMAIN disposed |-> DisposeClonedMaterials(m)],
              None, RemoveModelGroup, selectedPart, EmptyMap, EmptyMap)
    /\ phase' = [phase EXCEPT ![l] = "decoding"]
    /\ pre' = KeepOwnSnapshot(l, [root |-> None, attached |-> RemoveModelGroup,
                                  geom |-> DisposeGeometries, orig |-> EmptyMap,
                                  active |-> EmptyMap])
    /\ op' = [name |-> "readerOnLoad", arg |-> l,
              status |-> IF HasClones THEN "releasedClones" ELSE "none", prior |-> "none"]
    /\ UNCHANGED <<modelFile, fileOf, isLoading, selectedPart, selectedPartColor,
                   errorToasts>>
    /\ UNCHANGED viewVars
    /\ UNCHANGED framingVars

\* variant: a failed read tears the previous model down
ReaderOnError_TearsDown(l) ==
    /\ phase[l] = "reading"
    /\ phase' = [phase EXCEPT ![l] = "readErr"]
    /\ fileOf' = [fileOf EXCEPT ![l] = NoFile]
    /\ isLoading' = FALSE
    /\ gltfOriginalMaterials' = EmptyMap
    /\ activeMaterials' = EmptyMap
    /\ sceneChildren' = RemoveModelGroup
    /\ geometryDisposed' = DisposeGeometries
    /\ modelGroup' = None
    /\ Settle(material, mats, [m \in DOMAIN disposed |-> DisposeClonedMaterials(m)],
              None, RemoveModelGroup, selectedPart, EmptyMap, EmptyMap)
    /\ errorToasts' = [errorToasts EXCEPT ![l] = @ + 1]
    /\ pre' = KeepOwnSnapshot(l, [root |-> None, attached |-> RemoveModelGroup,
                                  geom |-> DisposeGeometries, orig |-> EmptyMap,
                                  active |-> EmptyMap])
    /\ op' = [name |-> "readerOnError", arg |-> l, status |-> "errorReadingFile",
              prior |-> "none"]
    /\ UNCHANGED <<modelFile, selectedPart, selectedPartColor>>
    /\ UNCHANGED viewVars
    /\ UNCHANGED framingVars

\* reader.onerror
ReaderOnError(l) ==
    /\ phase[l] = "reading"
    /\ phase' = [phase EXCEPT ![l] = "readErr"]
    /\ fileOf' = [fileOf EXCEPT ![l] = NoFile]
    /\ isLoading' = FALSE
    /\ errorToasts' = [errorToasts EXCEPT ![l] = @ + 1]
    /\ pre' = KeepOwnSnapshot(l, Session)
    /\ op' = [name |-> "readerOnError", arg |-> l, status |-> "errorReadingFile",
              prior |-> "none"]
    /\ UNCHANGED <<modelFile, modelGroup, sceneChildren, geometryDisposed,
                   gltfOriginalMaterials, activeMaterials, material, mats, disposed,
                   selectedPart, selectedPartColor>>
    /\ UNCHANGED viewVars
    /\ UNCHANGED framingVars

\* variant: a decode that completes while a model is installed is dropped
gltfScene_FirstWins(l) == IF modelGroup = None THEN l ELSE modelGroup

\* modelGroupRef.current = gltf.scene
gltfScene(l) == l

\* the meshes of the decoded graph gltf.scene, each with the material the
\* loader gave it, next to the meshes of the graphs decoded before
DecodedGraph(meshMaterial, l) ==
    [u \in DOMAIN meshMaterial \cup MeshesOf(l, fileOf[l]) |->
        IF u \in MeshesOf(l, fileOf[l]) THEN LoaderEntry(l, fileOf[l], u - l * 10)
        ELSE meshMaterial[u]]

\* variant: meshes with a material array get no table entry
PopulateTable_SkipsArrays(table, l) ==
    LET single == { u \in MeshesOf(l, fileOf[l]) : ~LoaderEntry(l, fileOf[l], u - l * 10).arr }
    IN  [u \in DOMAIN table \cup single |->
            IF u \in single THEN LoaderEntry(l, fileOf[l], u - l * 10) ELSE table[u]]

\* the traverse of the decoded graph: both tables get the loader's material
\* of every mesh, on top of whatever entries they hold
PopulateTable(table, l) ==
    [u \in DOMAIN table \cup MeshesOf(l, fileOf[l]) |->
        IF u \in MeshesOf(l, fileOf[l]) THEN LoaderEntry(l, fileOf[l], u - l * 10) ELSE table[u]]

\* loader.parse onLoad callback
ParseOnLoad(l) ==
    /\ phase[l] = "decoding"
    /\ Decodes(fileOf[l])
    /\ modelGroup' = gltfScene(l)
    /\ gltfOriginalMaterials' = PopulateTable(gltfOriginalMaterials, l)
    /\ activeMaterials' = PopulateTable(activeMaterials, l)
    /\ sceneChildren' = sceneChildren \cup {l}
    /\ isLoading' = FALSE
    /\ selectedPart' = handlePartSelect(None)
    /\ Settle(DecodedGraph(material, l),
              [m \in DOMAIN mats \cup DOMAIN LoaderMaterials(l, fileOf[l]) |->
                  IF m \in DOMAIN mats THEN mats[m] ELSE LoaderMaterials(l, fileOf[l])[m]],
              [m \in DOMAIN mats \cup DOMAIN LoaderMaterials(l, fileOf[l]) |->
                  IF m \in DOMAIN disposed THEN disposed[m] ELSE 0],
              gltfScene(l), sceneChildren \cup {l}, handlePartSelect(None),
              PopulateTable(gltfOriginalMaterials, l), PopulateTable(activeMaterials, l))
    /\ phase' = [phase EXCEPT ![l] = "installed"]
    /\ fileOf' = [fileOf EXCEPT ![l] = NoFile]
    /\ pre' = NoSnapshot
    /\ op' = [name |-> "parseOnLoad", arg |-> l,
              status |-> IF selectedPart # None THEN "clearedSelection" ELSE "none",
              prior |-> "none"]
    /\ adjustCameraAndLightsToModel
    /\ UNCHANGED <<modelFile, geometryDisposed, selectedPartColor, errorToasts>>
    /\ UNCHANGED viewVars

\* variant: a failed decode sends the load back to its read, unnotified
ParseOnError_Retries(l) ==
    /\ phase[l] = "decoding"
    /\ ~Decodes(fileOf[l])
    /\ phase' = [phase EXCEPT ![l] = "reading"]
    /\ pre' = KeepOwnSnapshot(l, Session)
    /\ op' = [name |-> "parseOnError", arg |-> l, status |-> "none", prior |-> "none"]
    /\ UNCHANGED <<modelFile, fileOf, isLoading, modelGroup, sceneChildren, geometryDisposed,
                   gltfOriginalMaterials, activeMaterials, material, mats, disposed,
                   selectedPart, selectedPartColor, errorToasts>>
    /\ UNCHANGED viewVars
    /\ UNCHANGED framingVars

\* loader.parse onError callback
ParseOnError(l) ==
    /\ phase[l] = "decoding"
    /\ ~Decodes(fileOf[l])
    /\ phase' = [phase EXCEPT ![l] = "decodeErr"]
    /\ fileOf' = [fileOf EXCEPT ![l] = NoFile]
    /\ isLoading' = FALSE
    /\ errorToasts' = [errorToasts EXCEPT ![l] = @ + 1]
    /\ pre' = KeepOwnSnapshot(l, Session)
    /\ op' = [name |-> "parseOnError", arg |-> l, status |-> "errorLoadingModel",
              prior |-> "none"]
    /\ UNCHANGED <<modelFile, modelGroup, sceneChildren, geometryDisposed,
                   gltfOriginalMaterials, activeMaterials, material, mats, disposed,
                   selectedPart, selectedPartColor>>
    /\ UNCHANGED viewVars
    /\ UNCHANGED framingVars

(***************************************************************************)
(* Unmount: the cleanup of the scene-initialisation layout effect.  It     *)
(* ends the life of the component.                                         *)
(***************************************************************************)
\* uuid of a material: generated per object, so never the uuid of a mesh
MaterialUuid(m) == 100000 + m

\* the key "", which is the uuid of nothing
EmptyKey == 0 - 1

\* (materialOrArray as any)?.uuid || "": an array has no uuid
uuidOrEmpty(entry) == IF entry.arr THEN EmptyKey ELSE MaterialUuid(entry.ref)

\* activeMaterialsRef.current.forEach of the cleanup: dispose every entry
\* that is not the original found under the uuid of the entry itself; the
\* result is the new dispose count of material m
DisposeAtUnmount(m) ==
    disposed[m] + Cardinality({ ui \in UNION { { <<u, i>> : i \in 1..Len(activeMaterials[u].ms) } :
                                                u \in DOMAIN activeMaterials } :
                                  /\ activeMaterials[ui[1]]
                                       # MapGet(gltfOriginalMaterials, uuidOrEmpty(activeMaterials[ui[1]]))
                                  /\ activeMaterials[ui[1]] # Undefined
                                  /\ activeMaterials[ui[1]].ms[ui[2]] = m })

Unmount ==
    /\ mounted
    /\ mounted' = FALSE
    /\ dragging' = FALSE
    /\ gltfOriginalMaterials' = EmptyMap
    /\ activeMaterials' = EmptyMap
    /\ sceneChildren' = RemoveModelGroup
    /\ geometryDisposed' = DisposeGeometries
    /\ modelGroup' = None
    /\ Settle(material, mats, [m \in DOMAIN disposed |-> DisposeAtUnmount(m)],
              None, RemoveModelGroup, selectedPart, EmptyMap, EmptyMap)
    /\ pre' = NoSnapshot
    /\ op' = [name |-> "unmount", arg |-> modelGroup,
              status |-> IF HasClones THEN "releasedClones" ELSE "none", prior |-> "none"]
    /\ UNCHANGED <<modelFile, phase, fileOf, isLoading, selectedPart, selectedPartColor,
                   errorToasts>>
    /\ UNCHANGED <<mountSize, rendererSize, pixelRatio, cameraAspect>>
    /\ UNCHANGED <<box, groupScale, groupPosition, cameraPosition, groundPlaneY,
                   spotlightPosition, lightPosition, showLightHelper>>

\* the life of the component up to its unmount: loads of payloads that
\* decode, selection and recolor, then the cleanup
NextUnmount ==
    \/ mounted /\ \E l \in Loads, f \in Files : Decodes(f) /\ SetModelFile(l, f)
    \/ mounted /\ \E l \in Loads : ReaderOnLoad(l)
    \/ mounted /\ \E l \in Loads : ParseOnLoad(l)
    \/ mounted /\ \E target \in DOMAIN material \cup {None} : HandleCanvasClick(target)
    \/ mounted /\ \E hex \in PickerColors : ChangePartColor(hex)
    \/ Unmount

SpecUnmount == Init /\ [][NextUnmount]_vars

(***************************************************************************)
(* Still-image export and window resize.  The component is mounted, so the  *)
(* readiness check of part_000:74-77 passes.                               *)
(***************************************************************************)
\* Math.round(originalWidth * scale), Math.round(originalHeight * scale):
\* the sizes and the scale options are integers, so nothing is rounded off
TargetSize(size, scale) == << size[1] * scale, size[2] * scale >>

\* what renderer.render / canvas.toDataURL can do during an export
RenderOutcomes == {"ok", "throwsAtCapture", "throwsAtRerender"}

\* ControlPanel "Export Rendered Image" -> Home.handleExportImage ->
\* exportToImage(scale)
ExportToImage(scale, outcome) ==
    LET original == mountSize
        target == TargetSize(original, scale)
        currentPixelRatio == pixelRatio
        originalAspect == cameraAspect
    IN  /\ IF outcome = "throwsAtCapture"
           THEN \* the catch block only reports the error
                /\ rendererSize' = target
                /\ pixelRatio' = pixelRatio
                /\ cameraAspect' = Aspect(target)
                /\ op' = [name |-> "exportImage", arg |-> scale, status |-> "exportError",
                          prior |-> "none"]
           ELSE /\ rendererSize' = original
                /\ pixelRatio' = currentPixelRatio
                /\ cameraAspect' = originalAspect
                /\ op' = [name |-> "exportImage", arg |-> scale,
                          status |-> IF outcome = "ok" THEN "imageExported" ELSE "exportError",
                          prior |-> "none"]
        /\ UNCHANGED <<mountSize, mounted>>
        /\ UNCHANGED sessionVars
        /\ UNCHANGED framingVars

\* window 'resize' listener
HandleResize(size) ==
    /\ size # mountSize
    /\ mountSize' = size
    /\ rendererSize' = size
    /\ cameraAspect' = Aspect(size)
    /\ op' = [name |-> "resize", arg |-> None, status |-> "none", prior |-> "none"]
    /\ UNCHANGED <<pixelRatio, mounted>>
    /\ UNCHANGED sessionVars
    /\ UNCHANGED framingVars

InitImage ==
    /\ EmptySession
    /\ \E size \in ViewportSizes, ratio \in DevicePixelRatios : InitView(size, ratio)
    /\ InitFraming(CubeAtTen)

NextImage ==
    \/ \E scale \in Scales, outcome \in RenderOutcomes : ExportToImage(scale, outcome)
    \/ \E size \in ViewportSizes : HandleResize(size)

SpecImage == InitImage /\ [][NextImage]_vars

InitFramingSpec ==
    /\ EmptySession
    /\ InitView(<<640, 480>>, 1)
    /\ \E b \in Boxes : InitFraming(b)

\* the loads of one payload that decodes, and the gizmo
NextFraming ==
    \/ \E l \in Loads : SetModelFile(l, "pair")
    \/ \E l \in Loads : ReaderOnLoad(l)
    \/ \E l \in Loads : ParseOnLoad(l)
    \/ ToggleLightHelper
    \/ DragStart
    \/ \E position \in GizmoPositions : DragMove(position)
    \/ DragEnd

SpecFraming == InitFramingSpec /\ [][NextFraming]_vars

Next ==
    \/ \E l \in Loads, f \in Files : SetModelFile(l, f)
    \/ RemoveModel
    \/ \E l \in Loads : ReaderOnLoad(l)
    \/ \E l \in Loads : ReaderOnError(l)
    \/ \E l \in Loads : ParseOnLoad(l)
    \/ \E l \in Loads : ParseOnError(l)
    \/ \E target \in DOMAIN material \cup {None} : HandleCanvasClick(target)
    \/ \E hex \in PickerColors : ChangePartColor(hex)
    \/ ExportToGLB

Spec == Init /\ [][Next]_vars


\* the FileReader fires 'load' or 'error' for every read it was given, and
\* GLTFLoader.parse calls exactly one of its two callbacks
CallbacksRun ==
    \A l \in Loads :
        /\ WF_vars(ReaderOnLoad(l) \/ ReaderOnError(l))
        /\ WF_vars(ParseOnLoad(l) \/ ParseOnError(l))

\* the load pipeline: requests, removals and the callbacks (selection,
\* recolor and export touch neither the pipeline nor isLoading)
NextLoads ==
    \/ \E l \in Loads, f \in Files : SetModelFile(l, f)
    \/ RemoveModel
    \/ \E l \in Loads : ReaderOnLoad(l)
    \/ \E l \in Loads : ReaderOnError(l)
    \/ \E l \in Loads : ParseOnLoad(l)
    \/ \E l \in Loads : ParseOnError(l)

SpecFair == Init /\ [][NextLoads]_vars /\ CallbacksRun


(***************************************************************************)
(* Properties                                                              *)
(***************************************************************************)
\* C1: if the decode of a load fails, the session (root, attached graphs,
\* released geometry, both material tables) is what it was when that load
\* was requested (no other operation having run in between).
C1_DecodeErrorKeepsSession ==
    \A l \in Loads : (phase[l] = "decodeErr" /\ pre.load = l) =>
        (pre.same /\ modelGroup = pre.root /\ sceneChildren = pre.attached)

\* C2: at most one model graph is attached to the scene, and every model
\* that was installed and is no longer the root has been detached and has
\* had its geometry released.
C2_AtMostOneSceneLive ==
    /\ Cardinality(sceneChildren) <= 1
    /\ \A l \in Loads : (phase[l] = "installed" /\ l # modelGroup) =>
            (l \notin sceneChildren /\ geometryDisposed[l] >= 1)

\* C3: every identifier of activeMaterials is in originalMaterials, and its
\* active entry is the original entry itself or a clone that the recolor
\* effect made of that original for that mesh.
C3_ActiveIsOriginalOrClone ==
    /\ DOMAIN activeMaterials \subseteq DOMAIN gltfOriginalMaterials
    /\ \A u \in DOMAIN activeMaterials :
          \/ activeMaterials[u] = gltfOriginalMaterials[u]
          \/ /\ activeMaterials[u].arr = gltfOriginalMaterials[u].arr
             /\ Len(activeMaterials[u].ms) = Len(gltfOriginalMaterials[u].ms)
             /\ \A j \in 1..Len(activeMaterials[u].ms) :
                   /\ mats[activeMaterials[u].ms[j]].src = gltfOriginalMaterials[u].ms[j]
                   /\ mats[activeMaterials[u].ms[j]].mesh = u

C3_Witness ==
    /\ op.status = "applied"
    /\ op.prior # "none"
    /\ activeMaterials[op.arg] # gltfOriginalMaterials[op.arg]
    /\ Cardinality(sceneChildren) = 2

\* C4: when the decode of a load completes after the decode of another
\* load (two requests that were in flight at the same time, in either order
\* of request), the root is the model of the decode that has just completed,
\* the second one.
C4_SecondDecodeWins ==
    (/\ op.name = "parseOnLoad"
     /\ \E k \in Loads : k # op.arg /\ phase[k] = "installed")
        => modelGroup = op.arg

\* the later request was decoded first, the earlier request second
C4_Witness ==
    /\ op.name = "parseOnLoad"
    /\ \E k \in Loads : k > op.arg /\ phase[k] = "installed" /\ k \in sceneChildren
    /\ modelGroup = op.arg

\* C5: while a load is being read or decoded, the root and the attached
\* graphs are those present when the load was requested.
C5_PreviousModelStaysDuringLoad ==
    \A l \in Loads : (InFlight(l) /\ pre.load = l) =>
        (modelGroup = pre.root /\ sceneChildren = pre.attached)

\* C6: isLoading is true whenever some load is being read or decoded.
C6_LoadingWhileInFlight ==
    (\E l \in Loads : InFlight(l)) => isLoading

\* result of one recolor of a freshly loaded mesh whose original entry is base
FreshRecolor(base, hex) ==
    [arr |-> base.arr,
     parts |-> [j \in 1..Len(base.ms) |-> cloneAndColorMaterial(base.ms[j], ColorFromHex(hex))]]

\* C7: whatever recolorings a mesh went through, its active material has
\* the colour and the other properties that a single recoloring with the
\* last colour gives on the freshly loaded mesh, and is derived from the
\* original material, not from an earlier clone.
C7_RecolorOrderIndependent ==
    \A u \in DOMAIN activeMaterials :
        activeMaterials[u] # MapGet(gltfOriginalMaterials, u) =>
            Struct(activeMaterials[u], mats)
              = FreshRecolor(gltfOriginalMaterials[u], PriorColor(activeMaterials[u]))

C7_Witness ==
    /\ op.status = "applied"
    /\ op.prior \notin {"none", selectedPartColor}
    /\ \E j \in 1..Len(activeMaterials[op.arg].ms) :
          mats[activeMaterials[op.arg].ms[j]].color = ColorFromHex(selectedPartColor)

\* no clone is leaked: the clones that are not disposed are exactly those
\* of the current active entry of the mesh they were made for
NoCloneLeaked ==
    \A m \in DOMAIN mats :
        mats[m].mesh # None =>
           (disposed[m] = 0 <=>
               /\ mats[m].mesh \in DOMAIN activeMaterials
               /\ m \in Range(activeMaterials[mats[m].mesh].ms))

\* C8: a recoloring of a mesh with the colour it was last recolored with
\* leaves an active material equivalent to the one it replaces, and after
\* every operation the clones made for a mesh that are not disposed are
\* exactly those of its current active entry (every superseded clone has
\* been released).
C8_RecolorIdempotentNoLeak ==
    [][/\ (op'.status = "applied" /\ op'.prior = selectedPartColor') =>
             Struct(activeMaterials'[op'.arg], mats') = Struct(activeMaterials[op'.arg], mats)
       /\ NoCloneLeaked']_vars

C8_Witness ==
    /\ op.status = "applied"
    /\ op.prior = selectedPartColor
    /\ activeMaterials[op.arg] # gltfOriginalMaterials[op.arg]
    /\ \A m \in Range(activeMaterials[op.arg].ms) : disposed[m] = 0

\* C9: a run of the recolor effect disposes nothing but the previous active
\* material of the mesh, and only when that is not the original entry; no
\* loader-supplied material is disposed by it.
C9_RecolorSparesOriginals ==
    [][op'.status = "applied" =>
          LET prev == MapGet(activeMaterials, op'.arg)
              \* dispose() ran on m in this step
              hit(m) == IF m \in DOMAIN disposed' THEN disposed'[m] # disposed[m]
                        ELSE mats[m].mesh # None /\ disposed[m] = 0
          IN  /\ \A m \in DOMAIN disposed :
                    hit(m) => (prev # gltfOriginalMaterials[op'.arg] /\ m \in Range(prev.ms))
              /\ \A m \in DOMAIN mats : mats[m].mesh = None => ~hit(m)]_vars

C9_Witness ==
    /\ op.status = "applied"
    /\ op.prior = "none"
    /\ activeMaterials[op.arg] # gltfOriginalMaterials[op.arg]
    /\ \A m \in Range(gltfOriginalMaterials[op.arg].ms) : m \in DOMAIN disposed /\ disposed[m] = 0

\* C10: a run of the recolor effect for a part whose identifier is not in
\* originalMaterials throws nothing and leaves both tables, the meshes'
\* materials, the heap and the dispose counts unchanged.
C10_UnknownPartIsNoOp ==
    [][(op'.name \in {"setPartColor", "selectPart"} /\ op'.arg # None
            /\ op'.arg \notin DOMAIN gltfOriginalMaterials) =>
          /\ op'.status = "skipped"
          /\ UNCHANGED <<gltfOriginalMaterials, activeMaterials, material, mats, disposed>>]_vars

C10_Witness ==
    /\ op.name = "setPartColor"
    /\ op.status = "skipped"
    /\ op.arg # None
    /\ op.arg \notin DOMAIN gltfOriginalMaterials
    /\ op.arg \in DOMAIN material

\* C11: selecting a mesh by a click only records selectedPart: the mesh's
\* live material, both tables and the materials on the heap with their
\* dispose counts are what they were before the click.
C11_SelectPartOnlyRecords ==
    [][(op'.name = "selectPart" /\ op'.arg # None) =>
          /\ UNCHANGED <<gltfOriginalMaterials, activeMaterials>>
          /\ material'[op'.arg] = material[op'.arg]
          /\ \A m \in DOMAIN mats' :
                m \in DOMAIN mats /\ mats'[m] = mats[m] /\ disposed'[m] = disposed[m]]_vars

\* C12: originalMaterials changes in two ways only: it is populated, from
\* empty, with the entries of the meshes of the model that is being
\* installed, and it is emptied by an unload or by the teardown that precedes
\* a replacement; under every other operation (recolor, selection, export,
\* completions of other loads) it keeps its keys and its references.
C12_OriginalsPopulatedOnce ==
    [][\/ gltfOriginalMaterials' = gltfOriginalMaterials
       \/ /\ op'.name \in {"removeModel", "readerOnLoad"}
          /\ gltfOriginalMaterials' = EmptyMap
       \/ /\ op'.name = "parseOnLoad"
          /\ gltfOriginalMaterials = EmptyMap
          /\ DOMAIN gltfOriginalMaterials' = { u \in DOMAIN material' : ModelOfMesh(u) = op'.arg }]_vars

\* C13: right after a load has succeeded, both tables hold an entry for
\* every mesh of the model just installed, and the active entry of each of
\* these meshes is the very same reference as its original entry.
C13_ActiveIsOriginalAfterLoad ==
    op.name = "parseOnLoad" =>
        \A u \in { v \in DOMAIN material : ModelOfMesh(v) = op.arg } :
            /\ u \in DOMAIN gltfOriginalMaterials
            /\ u \in DOMAIN activeMaterials
            /\ activeMaterials[u] = gltfOriginalMaterials[u]
            /\ activeMaterials[u] = material[u]

\* a model with a material array has just been installed on top of a session
\* in which another model had been recolored
C13_Witness ==
    /\ op.name = "parseOnLoad"
    /\ \E u \in DOMAIN material : ModelOfMesh(u) = op.arg /\ material[u].arr
    /\ \E u \in DOMAIN material : ModelOfMesh(u) # op.arg /\ mats[material[u].ms[1]].mesh # None

\* C14: after an unload, whatever loads and recolorings came before, both
\* tables are empty, the root is absent, the graph that was the root is not
\* attached to the scene any more, and selectedPart is absent.
C14_UnloadEmptiesSession ==
    op.name = "removeModel" =>
        /\ gltfOriginalMaterials = EmptyMap
        /\ activeMaterials = EmptyMap
        /\ modelGroup = None
        /\ selectedPart = None
        /\ op.arg # None => op.arg \notin sceneChildren

\* a model that had been loaded and recolored has just been unloaded
C14_Witness ==
    /\ op.name = "removeModel"
    /\ op.arg # None
    /\ op.status = "releasedClones"
    /\ geometryDisposed[op.arg] = 1

\* C15: an unload while no model is loaded (nothing was loaded, the load is
\* still pending or has failed, or an unload has just run) changes neither
\* the root, nor the tables, nor selectedPart, and disposes nothing.
C15_UnloadOnEmptyIsNoOp ==
    [][(op'.name = "removeModel" /\ modelGroup = None) =>
          /\ UNCHANGED <<modelGroup, gltfOriginalMaterials, activeMaterials, selectedPart,
                         geometryDisposed, sceneChildren>>
          /\ \A m \in DOMAIN disposed' : disposed'[m] = disposed[m]]_vars

\* C16: an unload, and the teardown that reader.onload runs before a
\* replacement, call dispose() exactly on the materials of the active
\* entries that are not the original entry of their mesh, once each; no
\* loader-supplied material is disposed by them.
C16_TeardownReleasesClonesOnly ==
    [][op'.name \in {"removeModel", "readerOnLoad"} =>
          LET clones == UNION { Range(activeMaterials[u].ms) :
                                  u \in { v \in DOMAIN activeMaterials :
                                            activeMaterials[v] # MapGet(gltfOriginalMaterials, v) } }
              \* dispose() ran on m in this step
              hit(m) == IF m \in DOMAIN disposed' THEN disposed'[m] # disposed[m]
                        ELSE mats[m].mesh # None /\ disposed[m] = 0
          IN  /\ \A m \in DOMAIN mats : hit(m) <=> m \in clones
              /\ \A m \in DOMAIN mats : mats[m].mesh = None => ~hit(m)
              /\ \A m \in DOMAIN disposed' \cap DOMAIN disposed :
                    disposed'[m] = disposed[m] + (IF m \in clones THEN 1 ELSE 0)]_vars

\* a replacement has torn down a model of which one mesh was recolored while
\* another mesh kept its original material
C16_Witness ==
    /\ op.name = "readerOnLoad"
    /\ op.status = "releasedClones"
    /\ \E m \in DOMAIN mats : mats[m].mesh = None /\ disposed[m] = 0
    /\ selectedPart # None

\* C17: exportModel while the root is absent (nothing loaded, a load still
\* pending, or a load that failed) ends with the export error notification
\* without handing anything to the exporter, and changes nothing in the
\* session.
C17_ExportWithoutModelFails ==
    [][(op'.name = "exportModel" /\ modelGroup = None) =>
          /\ op'.status = "exportError"
          /\ UNCHANGED <<modelFile, phase, fileOf, isLoading, modelGroup, sceneChildren,
                         geometryDisposed, gltfOriginalMaterials, activeMaterials, material,
                         mats, disposed, selectedPart, selectedPartColor>>]_vars

\* the export was asked for after a decode had failed and while another load
\* was pending
C17_Witness ==
    /\ op.name = "exportModel"
    /\ op.status = "exportError"
    /\ modelGroup = None
    /\ \E l \in Loads : phase[l] = "decodeErr"
    /\ \E l \in Loads : InFlight(l)

\* C18: when exportModel has handed the root to the exporter, every mesh of
\* the root that has an entry in activeMaterials carries exactly that entry
\* as its live material.
C18_ExportCarriesActiveMaterials ==
    (op.name = "exportModel" /\ op.status = "handed") =>
        \A u \in MeshesOfRoot :
            u \in DOMAIN activeMaterials => material[u] = activeMaterials[u]

\* the exported root has a recolored mesh and a mesh with its original
\* material, and the graph of an earlier load is still in the scene
C18_Witness ==
    /\ op.name = "exportModel"
    /\ op.status = "handed"
    /\ \E u \in MeshesOfRoot : activeMaterials[u] # gltfOriginalMaterials[u]
    /\ \E u \in MeshesOfRoot : activeMaterials[u] = gltfOriginalMaterials[u]
    /\ Cardinality(sceneChildren) = 2

\* C19: after a still-image export that succeeded, with any scale factor,
\* the size of the renderer surface, the pixel ratio and the camera aspect
\* are what they were before the call.
C19_ImageExportRestoresView ==
    [][(op'.name = "exportImage" /\ op'.status = "imageExported") =>
          UNCHANGED <<rendererSize, pixelRatio, cameraAspect>>]_vars

\* C20: a still-image export that ends with the export error notification
\* leaves the size of the renderer surface, the pixel ratio and the camera
\* aspect as they were before the call.
C20_FailedImageExportChangesNothing ==
    [][(op'.name = "exportImage" /\ op'.status = "exportError") =>
          UNCHANGED <<rendererSize, pixelRatio, cameraAspect>>]_vars

\* C21: the scale given to a model on load depends on the extents of its
\* bounding box only: 5 / (largest extent) when the largest extent is
\* positive, and 1 when all three extents are zero.
C21_FramingScale ==
    op.name = "parseOnLoad" =>
        LET size == getSize(box)
            largest == Max(size.x, Max(size.y, size.z))
        IN  groupScale = IF Less(Zero, largest) THEN Div(Frac(5, 1), largest) ELSE One

\* C22: after a load the centre of the bounding box of the scaled and moved
\* model is the origin, wherever the box of the geometry lies; the 2 x 2 x 2
\* cube centred at (10, 10, 10) is scaled by 5/2.
C22_ModelCentredAtOrigin ==
    op.name = "parseOnLoad" =>
        /\ getCenter(setFromObject(box, groupScale, groupPosition)) = ZeroVec
        /\ box = CubeAtTen => groupScale = Frac(5, 2)

C22_Witness ==
    /\ op.name = "parseOnLoad"
    /\ box = CubeAtTen
    /\ groupScale = Frac(5, 2)
    /\ groupPosition = Vec(Frac(0 - 25, 1), Frac(0 - 25, 1), Frac(0 - 25, 1))

\* C26: right after a load the light is at the position computed from the
\* scaled bounding box, also when the load completes during a drag of the
\* light gizmo.
C26_LightAtCanonicalOffset ==
    op.name = "parseOnLoad" => lightPosition = newLightPos(box)

\* C23: when the read of the chosen file fails, the error is notified once,
\* isLoading is false, and the session (root, attached graphs, released
\* geometry, both tables, and with them the meshes' materials and the dispose
\* counts) is what it was when the load was requested.
C23_ReadErrorKeepsSession ==
    /\ [](op.name = "readerOnError" =>
            /\ op.status = "errorReadingFile"
            /\ ~isLoading
            /\ pre.load = op.arg => (pre.same /\ modelGroup = pre.root
                                        /\ sceneChildren = pre.attached))
    /\ [][op'.name = "readerOnError" =>
            /\ errorToasts'[op'.arg] = errorToasts[op'.arg] + 1
            /\ UNCHANGED <<modelGroup, sceneChildren, geometryDisposed,
                           gltfOriginalMaterials, activeMaterials, material, mats,
                           disposed>>]_vars

\* the read failed for a replacement of a model that had been recolored
C23_Witness ==
    /\ op.name = "readerOnError"
    /\ pre.load = op.arg
    /\ modelGroup # None
    /\ modelGroup \in sceneChildren
    /\ \E u \in DOMAIN activeMaterials : activeMaterials[u] # gltfOriginalMaterials[u]

\* C24: right after a decode has completed and its model is installed,
\* selectedPart is absent.
C24_LoadClearsSelection ==
    op.name = "parseOnLoad" => selectedPart = None

\* a part was selected when the decode completed
C24_Witness ==
    /\ op.name = "parseOnLoad"
    /\ op.status = "clearedSelection"
    /\ selectedPart = None
    /\ modelGroup = op.arg

\* C25: under fairness of the read and decode callbacks, every requested
\* load ends, either installed with no error notification or failed with
\* exactly one; once no load is in flight isLoading becomes false; and a load
\* that has ended is never started again.
C25_LoadsTerminate ==
    /\ \A l \in Loads :
          InFlight(l) ~> \/ phase[l] = "installed" /\ errorToasts[l] = 0
                         \/ phase[l] \in {"readErr", "decodeErr"} /\ errorToasts[l] = 1
    /\ (\A l \in Loads : ~InFlight(l)) ~> ~isLoading
    /\ [][\A l \in Loads :
            phase[l] \in {"installed", "readErr", "decodeErr"} =>
                (phase'[l] = phase[l] /\ errorToasts'[l] = errorToasts[l])]_vars

\* every load has ended: one installed, one failed, nothing is loading
C25_Witness ==
    /\ \A l \in Loads : phase[l] \in {"installed", "readErr", "decodeErr"}
    /\ \E l \in Loads : phase[l] = "installed" /\ errorToasts[l] = 0
    /\ \E l \in Loads : phase[l] \in {"readErr", "decodeErr"} /\ errorToasts[l] = 1
    /\ ~isLoading

\* C27: when no file is chosen (the user removed the model) and no load is
\* being read or decoded any more, no model is installed: the root is
\* absent, both tables are empty and no model graph is attached to the scene.
C27_RemovedModelStaysRemoved ==
    (modelFile = None /\ \A l \in Loads : ~InFlight(l)) =>
        /\ modelGroup = None
        /\ gltfOriginalMaterials = EmptyMap
        /\ activeMaterials = EmptyMap
        /\ sceneChildren = {}

\* C28: every mesh of the root has the entry of activeMaterials under its
\* identifier as its live material, and while the root stays the same only a
\* load and setPartColor change the live material or the active entry of one
\* of its meshes.
C28_MeshCarriesActiveMaterial ==
    /\ [](\A u \in MeshesOfRoot :
            u \in DOMAIN activeMaterials /\ material[u] = activeMaterials[u])
    /\ [][\A u \in MeshesOfRoot :
            (/\ modelGroup' = modelGroup
             /\ \/ material'[u] # material[u]
                \/ MapGet(activeMaterials', u) # MapGet(activeMaterials, u))
                => op'.name \in {"parseOnLoad", "setPartColor"}]_vars

\* C29: selectedPart is absent or a mesh of the loaded model (its identifier
\* is in originalMaterials).
C29_SelectionIsOfLoadedModel ==
    selectedPart = None \/ selectedPart \in DOMAIN gltfOriginalMaterials

\* C30: the cleanup run at unmount disposes colorization clones only: no
\* material supplied by the loader (an active entry that is the original
\* entry of its mesh) is disposed by it, as in an unload.
C30_UnmountReleasesClonesOnly ==
    [][op'.name = "unmount" =>
          LET \* dispose() ran on m in this step
              hit(m) == IF m \in DOMAIN disposed' THEN disposed'[m] # disposed[m]
                        ELSE mats[m].mesh # None /\ disposed[m] = 0
          IN  \A m \in DOMAIN mats : mats[m].mesh = None => ~hit(m)]_vars

\* C31: no resource is used after release or released twice: no disposed
\* material is the live material of a mesh of a graph attached to the scene,
\* no material is disposed more than once, and whenever the root is absent
\* the geometry of every model that was ever attached has been released.
C31_NoUseAfterRelease ==
    /\ \A u \in DOMAIN material :
          ModelOfMesh(u) \in sceneChildren =>
              \A m \in Range(material[u].ms) : m \in DOMAIN disposed => disposed[m] = 0
    /\ \A m \in DOMAIN disposed : disposed[m] <= 1
    /\ modelGroup = None =>
          \A l \in Loads : phase[l] = "installed" => geometryDisposed[l] >= 1

====
